---- MODULE Spec2Model ----
(***************************************************************************)
(* Upgrade rules of an ArangoDB deployment (package upgraderules).         *)
(*                                                                         *)
(* A version is the string the caller hands in ("3.12.7", "3.12.7-rc1").   *)
(* Strings are sequences of one-character strings so that splitting on     *)
(* ".", cutting the leading digit run and strconv.Atoi are computed the    *)
(* way rules.go computes them.                                             *)
(***************************************************************************)
EXTENDS Integers, Sequences, FiniteSets, TLC

VARIABLES from, to, fromLicense, toLicense, op, err, patch

vars == <<from, to, fromLicense, toLicense, op, err, patch>>

----------------------------------------------------------------------------
(* Bounds of the checked input space *)

MaxMajor == 5
MaxMinor == 2
MaxPatch == 8
MaxLen == 5

----------------------------------------------------------------------------
(* Strings *)

Digits == <<"0", "1", "2", "3", "4", "5", "6", "7", "8", "9">>

IsDigit(c) == \E i \in 1..10 : Digits[i] = c

DigitVal(c) == (CHOOSE i \in 1..10 : Digits[i] = c) - 1

RECURSIVE Itoa(_)
Itoa(n) ==
    IF n < 0 THEN <<"-">> \o Itoa(-n)
    ELSE IF n < 10 THEN <<Digits[n + 1]>>
    ELSE Itoa(n \div 10) \o <<Digits[(n % 10) + 1]>>

RECURSIVE Split(_, _)
Split(s, sep) ==
    IF \A i \in 1..Len(s) : s[i] # sep THEN <<s>>
    ELSE LET i == CHOOSE k \in 1..Len(s) :
                      s[k] = sep /\ \A j \in 1..(k - 1) : s[j] # sep
         IN <<SubSeq(s, 1, i - 1)>> \o Split(SubSeq(s, i + 1, Len(s)), sep)

(* the value of a run of decimal digits *)
RECURSIVE DigitsValue(_)
DigitsValue(s) ==
    IF s = <<>> THEN 0
    ELSE 10 * DigitsValue(SubSeq(s, 1, Len(s) - 1)) + DigitVal(s[Len(s)])

RECURSIVE StripZeros(_)
StripZeros(s) ==
    IF Len(s) > 1 /\ s[1] = "0" THEN StripZeros(Tail(s)) ELSE s

(* a <= b for digit runs without leading zeros *)
RECURSIVE DigitsLeq(_, _)
DigitsLeq(a, b) ==
    IF Len(a) # Len(b) THEN Len(a) < Len(b)
    ELSE IF a = <<>> THEN TRUE
    ELSE IF a[1] # b[1] THEN DigitVal(a[1]) < DigitVal(b[1])
    ELSE DigitsLeq(Tail(a), Tail(b))

(* the largest value of a Go int (64 bit): 9223372036854775807 *)
MaxIntDigits ==
    <<"9", "2", "2", "3", "3", "7", "2", "0", "3", "6", "8", "5", "4", "7",
      "7", "5", "8", "0", "7">>

(* strconv.Atoi: an optional sign and decimal digits; an empty string, a   *)
(* character that is no digit, or a value out of the range of int is an    *)
(* error.                                                                  *)
Atoi(s) ==
    LET signed == s # <<>> /\ s[1] \in {"+", "-"}
        body == IF signed THEN Tail(s) ELSE s
    IN IF body = <<>> \/ \E i \in 1..Len(body) : ~IsDigit(body[i])
       THEN [ok |-> FALSE, val |-> 0]
       ELSE IF ~DigitsLeq(StripZeros(body), MaxIntDigits)
       THEN [ok |-> FALSE, val |-> 0]
       ELSE [ok |-> TRUE,
             val |-> IF signed /\ s[1] = "-" THEN 0 - DigitsValue(body)
                     ELSE DigitsValue(body)]

(* fmt.Sprintf("%d.%d", a, b) *)
SprintfDotted(a, b) == Itoa(a) \o <<".">> \o Itoa(b)

----------------------------------------------------------------------------
(* driver.Version: Major and Minor parse the first and second component   *)
(* with strconv.Atoi and drop its error. The versions checked here have    *)
(* small numeric majors and minors, so the value Atoi returns next to a    *)
(* range error is never read.                                              *)

Major(v) == Atoi(Split(v, ".")[1]).val

Minor(v) ==
    LET parts == Split(v, ".")
    IN IF Len(parts) >= 2 THEN Atoi(parts[2]).val ELSE 0

----------------------------------------------------------------------------
(* License *)

LicenseCommunity == 0
LicenseEnterprise == 1

License == {LicenseCommunity, LicenseEnterprise}

----------------------------------------------------------------------------
(* Errors: the format string of the fmt.Errorf call and its arguments *)

Errorf(format, args) == [format |-> format, args |-> args]

nil == [format |-> "nil", args |-> <<>>]

MajorDowngrade ==
    "Major versions are different: downgrade of major version is not allowed"
MajorSkip ==
    "Major versions are different: major versions may only increment by 1"
MajorUpgradeNotToZero ==
    "Major versions are different: major upgrades are only allowed to X.0"
MajorUpgradeNotAllowedFromLine ==
    "Major versions are different: major upgrade from %d.%d to %d.0 is not allowed"
PatchTooLowForMajorUpgrade == "Upgrade to %d.0 requires at least %d.%d.%d"
MinorDowngrade == "Downgrade of minor version is not allowed"
MinorSkip == "Minor versions may only increment by 1"
LicenseDowngrade ==
    "Upgrade from Enterprise to Community edition is not possible"

----------------------------------------------------------------------------
(* rules.go *)

minPatchForMajorUpgrade == (<<"3", ".", "1", "2">> :> 7)

(* the leading run of decimal digits of the patch component *)
LeadingDigits(patchStr) ==
    IF \E i \in 1..Len(patchStr) : ~IsDigit(patchStr[i])
    THEN LET i == CHOOSE k \in 1..Len(patchStr) :
                      /\ ~IsDigit(patchStr[k])
                      /\ \A j \in 1..(k - 1) : IsDigit(patchStr[j])
         IN SubSeq(patchStr, 1, i - 1)
    ELSE patchStr

(* getPatch converting the whole patch component, suffix included *)
getPatch_NoSuffixCut(v) ==
    LET parts == Split(v, ".")
    IN IF Len(parts) < 3 THEN 0
       ELSE LET p == Atoi(parts[3])
            IN IF ~p.ok THEN 0 ELSE p.val

getPatch(v) ==
    LET parts == Split(v, ".")
    IN IF Len(parts) < 3 THEN 0
       ELSE LET p == Atoi(LeadingDigits(parts[3]))
            IN IF ~p.ok THEN 0 ELSE p.val

(* checkMinPatchForMajorUpgrade requiring a patch above the minimum *)
checkMinPatch_StrictlyAbove(f, t) ==
    IF Major(t) # Major(f) + 1 \/ Minor(t) # 0 THEN nil
    ELSE LET key == SprintfDotted(Major(f), Minor(f))
         IN IF key \notin DOMAIN minPatchForMajorUpgrade
            THEN Errorf(MajorUpgradeNotAllowedFromLine,
                        <<Major(f), Minor(f), Major(t)>>)
            ELSE IF getPatch(f) > minPatchForMajorUpgrade[key] THEN nil
            ELSE Errorf(PatchTooLowForMajorUpgrade,
                        <<Major(t), Major(f), Minor(f),
                          minPatchForMajorUpgrade[key]>>)

(* checkMinPatchForMajorUpgrade taking a missing entry as "no requirement" *)
checkMinPatch_NoRuleAllows(f, t) ==
    IF Major(t) # Major(f) + 1 \/ Minor(t) # 0 THEN nil
    ELSE LET key == SprintfDotted(Major(f), Minor(f))
         IN IF key \notin DOMAIN minPatchForMajorUpgrade THEN nil
            ELSE IF getPatch(f) >= minPatchForMajorUpgrade[key] THEN nil
            ELSE Errorf(PatchTooLowForMajorUpgrade,
                        <<Major(t), Major(f), Minor(f),
                          minPatchForMajorUpgrade[key]>>)

checkMinPatchForMajorUpgrade(f, t) ==
    IF Major(t) # Major(f) + 1 \/ Minor(t) # 0 THEN nil
    ELSE LET key == SprintfDotted(Major(f), Minor(f))
         IN IF key \notin DOMAIN minPatchForMajorUpgrade
            THEN Errorf(MajorUpgradeNotAllowedFromLine,
                        <<Major(f), Minor(f), Major(t)>>)
            ELSE IF getPatch(f) >= minPatchForMajorUpgrade[key] THEN nil
            ELSE Errorf(PatchTooLowForMajorUpgrade,
                        <<Major(t), Major(f), Minor(f),
                          minPatchForMajorUpgrade[key]>>)

(* CheckUpgradeRules without the increment-by-1 check on the minor *)
CheckUpgradeRules_NoMinorSkipCheck(f, t) ==
    IF Major(f) # Major(t)
    THEN IF Major(t) < Major(f) THEN Errorf(MajorDowngrade, <<>>)
         ELSE IF Major(t) # Major(f) + 1 THEN Errorf(MajorSkip, <<>>)
         ELSE IF Minor(t) # 0 THEN Errorf(MajorUpgradeNotToZero, <<>>)
         ELSE checkMinPatchForMajorUpgrade(f, t)
    ELSE IF Minor(f) # Minor(t)
    THEN IF Minor(t) < Minor(f) THEN Errorf(MinorDowngrade, <<>>)
         ELSE nil
    ELSE nil

(* CheckUpgradeRules without the minor downgrade check *)
CheckUpgradeRules_NoMinorDowngradeCheck(f, t) ==
    IF Major(f) # Major(t)
    THEN IF Major(t) < Major(f) THEN Errorf(MajorDowngrade, <<>>)
         ELSE IF Major(t) # Major(f) + 1 THEN Errorf(MajorSkip, <<>>)
         ELSE IF Minor(t) # 0 THEN Errorf(MajorUpgradeNotToZero, <<>>)
         ELSE checkMinPatchForMajorUpgrade(f, t)
    ELSE IF Minor(f) # Minor(t)
    THEN IF Minor(t) # Minor(f) + 1 THEN Errorf(MinorSkip, <<>>)
         ELSE nil
    ELSE nil

(* CheckUpgradeRules without the next-major-only check *)
CheckUpgradeRules_NoMajorSkipCheck(f, t) ==
    IF Major(f) # Major(t)
    THEN IF Major(t) < Major(f) THEN Errorf(MajorDowngrade, <<>>)
         ELSE IF Minor(t) # 0 THEN Errorf(MajorUpgradeNotToZero, <<>>)
         ELSE checkMinPatchForMajorUpgrade(f, t)
    ELSE IF Minor(f) # Minor(t)
    THEN IF Minor(t) < Minor(f) THEN Errorf(MinorDowngrade, <<>>)
         ELSE IF Minor(t) # Minor(f) + 1 THEN Errorf(MinorSkip, <<>>)
         ELSE nil
    ELSE nil

(* CheckUpgradeRules applying the minor checks to an unchanged minor too *)
CheckUpgradeRules_MinorChecksAlways(f, t) ==
    IF Major(f) # Major(t)
    THEN IF Major(t) < Major(f) THEN Errorf(MajorDowngrade, <<>>)
         ELSE IF Major(t) # Major(f) + 1 THEN Errorf(MajorSkip, <<>>)
         ELSE IF Minor(t) # 0 THEN Errorf(MajorUpgradeNotToZero, <<>>)
         ELSE checkMinPatchForMajorUpgrade(f, t)
    ELSE IF Minor(t) < Minor(f) THEN Errorf(MinorDowngrade, <<>>)
    ELSE IF Minor(t) # Minor(f) + 1 THEN Errorf(MinorSkip, <<>>)
    ELSE nil

CheckUpgradeRules(f, t) ==
    IF Major(f) # Major(t)
    THEN IF Major(t) < Major(f) THEN Errorf(MajorDowngrade, <<>>)
         ELSE IF Major(t) # Major(f) + 1 THEN Errorf(MajorSkip, <<>>)
         ELSE IF Minor(t) # 0 THEN Errorf(MajorUpgradeNotToZero, <<>>)
         ELSE checkMinPatchForMajorUpgrade(f, t)
    ELSE IF Minor(f) # Minor(t)
    THEN IF Minor(t) < Minor(f) THEN Errorf(MinorDowngrade, <<>>)
         ELSE IF Minor(t) # Minor(f) + 1 THEN Errorf(MinorSkip, <<>>)
         ELSE nil
    ELSE nil

(* CheckSoftUpgradeRules with the strict checker's increment-by-1 check *)
CheckSoftUpgradeRules_MinorByOne(f, t) ==
    IF Major(f) # Major(t)
    THEN IF Major(t) < Major(f) THEN Errorf(MajorDowngrade, <<>>)
         ELSE IF Major(t) # Major(f) + 1 THEN Errorf(MajorSkip, <<>>)
         ELSE IF Minor(t) # 0 THEN Errorf(MajorUpgradeNotToZero, <<>>)
         ELSE checkMinPatchForMajorUpgrade(f, t)
    ELSE IF Minor(t) < Minor(f) THEN Errorf(MinorDowngrade, <<>>)
    ELSE IF Minor(f) # Minor(t) /\ Minor(t) # Minor(f) + 1
    THEN Errorf(MinorSkip, <<>>)
    ELSE nil

(* CheckSoftUpgradeRules without the X.0 check *)
CheckSoftUpgradeRules_NoToZeroCheck(f, t) ==
    IF Major(f) # Major(t)
    THEN IF Major(t) < Major(f) THEN Errorf(MajorDowngrade, <<>>)
         ELSE IF Major(t) # Major(f) + 1 THEN Errorf(MajorSkip, <<>>)
         ELSE checkMinPatchForMajorUpgrade(f, t)
    ELSE IF Minor(t) < Minor(f) THEN Errorf(MinorDowngrade, <<>>)
    ELSE nil

CheckSoftUpgradeRules(f, t) ==
    IF Major(f) # Major(t)
    THEN IF Major(t) < Major(f) THEN Errorf(MajorDowngrade, <<>>)
         ELSE IF Major(t) # Major(f) + 1 THEN Errorf(MajorSkip, <<>>)
         ELSE IF Minor(t) # 0 THEN Errorf(MajorUpgradeNotToZero, <<>>)
         ELSE checkMinPatchForMajorUpgrade(f, t)
    ELSE IF Minor(t) < Minor(f) THEN Errorf(MinorDowngrade, <<>>)
    ELSE nil

(* CheckUpgradeRulesWithLicense denying every change of license *)
CheckUpgradeRulesWithLicense_AnyChange(fromVersion, toVersion, fromLic, toLic) ==
    IF fromLic # toLic
    THEN Errorf(LicenseDowngrade, <<>>)
    ELSE CheckUpgradeRules(fromVersion, toVersion)

CheckUpgradeRulesWithLicense(fromVersion, toVersion, fromLic, toLic) ==
    IF fromLic # toLic /\ fromLic = LicenseEnterprise
    THEN Errorf(LicenseDowngrade, <<>>)
    ELSE CheckUpgradeRules(fromVersion, toVersion)

CheckSoftUpgradeRulesWithLicense(fromVersion, toVersion, fromLic, toLic) ==
    IF fromLic # toLic /\ fromLic = LicenseEnterprise
    THEN Errorf(LicenseDowngrade, <<>>)
    ELSE CheckSoftUpgradeRules(fromVersion, toVersion)

----------------------------------------------------------------------------
(* The older rules: major changes are never allowed, no minimum patch *)

MajorsDiffer_Old == "Major versions are different"
Downgrade_Old == "Downgrade is not possible"

CheckUpgradeRules_Old(f, t) ==
    IF Major(f) # Major(t) THEN Errorf(MajorsDiffer_Old, <<>>)
    ELSE IF Minor(f) # Minor(t) /\ Minor(f) + 1 # Minor(t)
    THEN Errorf(MinorSkip, <<>>)
    ELSE nil

CheckSoftUpgradeRules_Old(f, t) ==
    IF Major(f) # Major(t) THEN Errorf(MajorsDiffer_Old, <<>>)
    ELSE IF Minor(f) # Minor(t) /\ Minor(f) < Minor(t)
    THEN Errorf(Downgrade_Old, <<>>)
    ELSE nil

CheckUpgradeRulesWithLicense_Old(fromVersion, toVersion, fromLic, toLic) ==
    IF fromLic # toLic /\ fromLic = LicenseEnterprise
    THEN Errorf(LicenseDowngrade, <<>>)
    ELSE CheckUpgradeRules_Old(fromVersion, toVersion)

CheckSoftUpgradeRulesWithLicense_Old(fromVersion, toVersion, fromLic, toLic) ==
    IF fromLic # toLic /\ fromLic = LicenseEnterprise
    THEN Errorf(LicenseDowngrade, <<>>)
    ELSE CheckSoftUpgradeRules_Old(fromVersion, toVersion)

----------------------------------------------------------------------------
(* The versions a caller hands in *)

Majors == 3..MaxMajor

Minors == (0..MaxMinor) \cup {11, 12}

(* numeric patches around the required minimum, and a long one *)
PatchNumbers == {0, 11111} \cup (6..MaxPatch)

(* twenty digits: more than an int holds *)
HugePatch == [i \in 1..20 |-> "9"]

PatchSegments ==
    {Itoa(n) : n \in PatchNumbers}
        \cup {<<"7", "-", "r", "c", "1">>, <<"r", "c", "7">>, HugePatch}

Versions ==
    {Itoa(ma) \o <<".">> \o Itoa(mi) \o <<".">> \o p :
        ma \in Majors, mi \in Minors, p \in PatchSegments}
        \cup {SprintfDotted(ma, mi) : ma \in Majors, mi \in Minors}

----------------------------------------------------------------------------
(* The state machine: a pair of versions and licenses, and the calls on it *)

Ops == {"CheckUpgradeRules", "CheckSoftUpgradeRules",
        "CheckUpgradeRulesWithLicense", "CheckSoftUpgradeRulesWithLicense"}

Init ==
    /\ from \in Versions
    /\ to \in Versions
    /\ fromLicense \in License
    /\ toLicense \in License
    /\ op = "none"
    /\ err = nil
    /\ patch = 0

CallCheckUpgradeRules ==
    /\ op' = "CheckUpgradeRules"
    /\ err' = CheckUpgradeRules(from, to)
    /\ UNCHANGED <<from, to, fromLicense, toLicense, patch>>

CallCheckSoftUpgradeRules ==
    /\ op' = "CheckSoftUpgradeRules"
    /\ err' = CheckSoftUpgradeRules(from, to)
    /\ UNCHANGED <<from, to, fromLicense, toLicense, patch>>

CallCheckUpgradeRulesWithLicense ==
    /\ op' = "CheckUpgradeRulesWithLicense"
    /\ err' = CheckUpgradeRulesWithLicense(from, to, fromLicense, toLicense)
    /\ UNCHANGED <<from, to, fromLicense, toLicense, patch>>

CallCheckSoftUpgradeRulesWithLicense ==
    /\ op' = "CheckSoftUpgradeRulesWithLicense"
    /\ err' = CheckSoftUpgradeRulesWithLicense(from, to, fromLicense, toLicense)
    /\ UNCHANGED <<from, to, fromLicense, toLicense, patch>>

Next ==
    \/ CallCheckUpgradeRules
    \/ CallCheckSoftUpgradeRules
    \/ CallCheckUpgradeRulesWithLicense
    \/ CallCheckSoftUpgradeRulesWithLicense

Spec == Init /\ [][Next]_vars

(* The calls of the older rules on the same pairs *)

CallCheckUpgradeRules_Old ==
    /\ op' = "old.CheckUpgradeRules"
    /\ err' = CheckUpgradeRules_Old(from, to)
    /\ UNCHANGED <<from, to, fromLicense, toLicense, patch>>

CallCheckSoftUpgradeRules_Old ==
    /\ op' = "old.CheckSoftUpgradeRules"
    /\ err' = CheckSoftUpgradeRules_Old(from, to)
    /\ UNCHANGED <<from, to, fromLicense, toLicense, patch>>

CallCheckUpgradeRulesWithLicense_Old ==
    /\ op' = "old.CheckUpgradeRulesWithLicense"
    /\ err' = CheckUpgradeRulesWithLicense_Old(from, to, fromLicense, toLicense)
    /\ UNCHANGED <<from, to, fromLicense, toLicense, patch>>

CallCheckSoftUpgradeRulesWithLicense_Old ==
    /\ op' = "old.CheckSoftUpgradeRulesWithLicense"
    /\ err' = CheckSoftUpgradeRulesWithLicense_Old(from, to, fromLicense,
                                                   toLicense)
    /\ UNCHANGED <<from, to, fromLicense, toLicense, patch>>

NextOld ==
    \/ CallCheckUpgradeRules_Old
    \/ CallCheckSoftUpgradeRules_Old
    \/ CallCheckUpgradeRulesWithLicense_Old
    \/ CallCheckSoftUpgradeRulesWithLicense_Old

SpecOld == Init /\ [][NextOld]_vars

(* getPatch on its own: every string over a small alphabet, and the        *)
(* versions above                                                          *)

Alphabet == {"0", "7", ".", "r"}

RECURSIVE StringsUpTo(_)
StringsUpTo(n) ==
    IF n = 0 THEN {<<>>}
    ELSE LET shorter == StringsUpTo(n - 1)
         IN shorter \cup {Append(s, c) : s \in shorter, c \in Alphabet}

PatchInputs == StringsUpTo(MaxLen) \cup Versions

InitPatch ==
    /\ from \in PatchInputs
    /\ to = from
    /\ fromLicense = LicenseCommunity
    /\ toLicense = LicenseCommunity
    /\ op = "none"
    /\ err = nil
    /\ patch = 0

CallGetPatch ==
    /\ op' = "getPatch"
    /\ patch' = getPatch(from)
    /\ UNCHANGED <<from, to, fromLicense, toLicense, err>>

NextPatch == CallGetPatch

SpecPatch == InitPatch /\ [][NextPatch]_vars

TypeOK ==
    /\ from \in Versions
    /\ to \in Versions
    /\ op \in Ops \cup {"none"}
    /\ err.format \in {"nil", MajorDowngrade, MajorSkip, MajorUpgradeNotToZero,
                       MajorUpgradeNotAllowedFromLine,
                       PatchTooLowForMajorUpgrade, MinorDowngrade, MinorSkip,
                       LicenseDowngrade}

----------------------------------------------------------------------------
(* Vocabulary of the properties *)

IsPlainCall == op \in {"CheckUpgradeRules", "CheckSoftUpgradeRules"}

IsLicenseCall ==
    op \in {"CheckUpgradeRulesWithLicense", "CheckSoftUpgradeRulesWithLicense"}

(* a transition into the next major line, to its minor 0 *)
MajorUpgradeToZero == Major(to) = Major(from) + 1 /\ Minor(to) = 0

SourceLine == SprintfDotted(Major(from), Minor(from))

HasMinPatchRule == SourceLine \in DOMAIN minPatchForMajorUpgrade

HasPatchSegment(v) == Len(Split(v, ".")) >= 3

PatchSegment(v) == Split(v, ".")[3]

(* the patch segment starts with a digit *)
PatchStartsWithDigits(v) ==
    HasPatchSegment(v) /\ PatchSegment(v) # <<>> /\ IsDigit(PatchSegment(v)[1])

(* the digits the patch segment starts with *)
PatchDigits(v) == StripZeros(LeadingDigits(PatchSegment(v)))

(* the number a digit run denotes is at least m, whatever its length *)
DigitsAtLeast(run, m) == DigitsLeq(Itoa(m), run)

FitsInt(run) == DigitsLeq(run, MaxIntDigits)

PatchTooLowError ==
    Errorf(PatchTooLowForMajorUpgrade,
           <<Major(to), Major(from), Minor(from),
             minPatchForMajorUpgrade[SourceLine]>>)

InvalidSourceVersionFormat == "Invalid source version format"

----------------------------------------------------------------------------
(* C1 as stated: on a major upgrade to X.0 from a source line with a       *)
(* minimum patch m, where the source patch segment starts with digits of   *)
(* value p, both checkers allow exactly when p >= m and deny with the      *)
(* PatchTooLowForMajorUpgrade reason when p < m.                           *)
C1_AllowedIffPatchAtLeastMin ==
    (IsPlainCall /\ MajorUpgradeToZero /\ HasMinPatchRule
        /\ PatchStartsWithDigits(from))
    => /\ (err = nil) <=>
              DigitsAtLeast(PatchDigits(from), minPatchForMajorUpgrade[SourceLine])
       /\ ~DigitsAtLeast(PatchDigits(from), minPatchForMajorUpgrade[SourceLine])
              => err = PatchTooLowError

(* C1 amended: the same, for a digit run whose value fits in an int; a     *)
(* digit run too large for an int is read as patch 0 and both checkers     *)
(* deny with the PatchTooLowForMajorUpgrade reason.                        *)
C1_AllowedIffIntPatchAtLeastMin ==
    (IsPlainCall /\ MajorUpgradeToZero /\ HasMinPatchRule
        /\ PatchStartsWithDigits(from))
    => IF FitsInt(PatchDigits(from))
       THEN /\ (err = nil) <=>
                   DigitsAtLeast(PatchDigits(from),
                                 minPatchForMajorUpgrade[SourceLine])
            /\ ~DigitsAtLeast(PatchDigits(from),
                              minPatchForMajorUpgrade[SourceLine])
                   => err = PatchTooLowError
       ELSE err = PatchTooLowError

(* 3.12.7-rc1 -> 4.0.x has been allowed by the soft checker *)
C1_Witness ==
    /\ op = "CheckSoftUpgradeRules"
    /\ MajorUpgradeToZero /\ HasMinPatchRule
    /\ PatchStartsWithDigits(from)
    /\ PatchSegment(from) = <<"7", "-", "r", "c", "1">>
    /\ err = nil

(* C2: on a major upgrade to X.0 from a source line with a minimum patch,  *)
(* a source patch segment without leading digits is denied by both         *)
(* checkers with the InvalidSourceVersionFormat reason, which is not the   *)
(* PatchTooLowForMajorUpgrade reason.                                      *)
C2_MalformedPatchIsInvalidFormat ==
    (IsPlainCall /\ MajorUpgradeToZero /\ HasMinPatchRule
        /\ HasPatchSegment(from) /\ ~PatchStartsWithDigits(from))
    => /\ err # nil
       /\ err.format = InvalidSourceVersionFormat
       /\ err.format # PatchTooLowForMajorUpgrade

(* C3: the license checkers deny with LicenseDowngrade exactly on          *)
(* Enterprise -> Community, whatever the versions; on the other license    *)
(* pairs they return what the plain checker returns on the versions.       *)
C3_LicenseGate ==
    IsLicenseCall
    => LET downgrade == fromLicense = LicenseEnterprise
                            /\ toLicense = LicenseCommunity
           plain == IF op = "CheckUpgradeRulesWithLicense"
                    THEN CheckUpgradeRules(from, to)
                    ELSE CheckSoftUpgradeRules(from, to)
       IN /\ (err.format = LicenseDowngrade) <=> downgrade
          /\ downgrade => err = Errorf(LicenseDowngrade, <<>>)
          /\ ~downgrade => err = plain

(* an identical version is still denied on Enterprise -> Community *)
C3_Witness ==
    /\ op = "CheckUpgradeRulesWithLicense"
    /\ from = to
    /\ fromLicense = LicenseEnterprise /\ toLicense = LicenseCommunity
    /\ err.format = LicenseDowngrade

(* C4: the strict checker allows a same-major minor increase exactly when  *)
(* it is by one, whatever the patches; a larger increase is denied with    *)
(* MinorSkip.                                                              *)
C4_StrictMinorByOne ==
    (op = "CheckUpgradeRules" /\ Major(to) = Major(from)
        /\ Minor(to) > Minor(from))
    => /\ (err = nil) <=> (Minor(to) = Minor(from) + 1)
       /\ Minor(to) > Minor(from) + 1 => err = Errorf(MinorSkip, <<>>)

(* a jump of two minors has been denied by the strict checker *)
C4_Witness ==
    /\ op = "CheckUpgradeRules"
    /\ Major(to) = Major(from) /\ Minor(to) = Minor(from) + 2
    /\ err.format = MinorSkip

(* C5: the soft checker allows every same-major minor increase, whatever   *)
(* its size and whatever the patches.                                      *)
C5_SoftAnyForwardMinor ==
    (op = "CheckSoftUpgradeRules" /\ Major(to) = Major(from)
        /\ Minor(to) > Minor(from))
    => err = nil

(* a jump of more than one minor to a non-numeric patch has been allowed *)
C5_Witness ==
    /\ op = "CheckSoftUpgradeRules"
    /\ Major(to) = Major(from) /\ Minor(to) > Minor(from) + 1
    /\ HasPatchSegment(to) /\ ~PatchStartsWithDigits(to)
    /\ err = nil

(* C6: a same-major minor decrease is denied by both checkers with         *)
(* MinorDowngrade, never MinorSkip, whatever the patches.                  *)
C6_MinorDowngradeDenied ==
    (IsPlainCall /\ Major(to) = Major(from) /\ Minor(to) < Minor(from))
    => /\ err = Errorf(MinorDowngrade, <<>>)
       /\ err.format # MinorSkip

(* the strict checker has denied a decrease of more than one minor *)
C6_Witness ==
    /\ op = "CheckUpgradeRules"
    /\ Major(to) = Major(from) /\ Minor(to) < Minor(from) - 1
    /\ err.format = MinorDowngrade

(* C7: a lower target major is denied with MajorDowngrade and a target     *)
(* major beyond the next one with MajorSkip, by both checkers, whatever    *)
(* the minors, the patches and the minimum-patch table.                    *)
C7_MajorDowngradeAndSkipDenied ==
    IsPlainCall
    => /\ Major(to) < Major(from) => err = Errorf(MajorDowngrade, <<>>)
       /\ Major(to) > Major(from) + 1 => err = Errorf(MajorSkip, <<>>)

(* 3.12.7 -> 5.0.x has been denied as a skipped major *)
C7_Witness ==
    /\ IsPlainCall
    /\ Major(to) = Major(from) + 2 /\ Minor(to) = 0
    /\ HasMinPatchRule /\ getPatch(from) = 7
    /\ err.format = MajorSkip

(* C8: a major upgrade to a non-zero minor is denied by both checkers with *)
(* MajorUpgradeNotToZero, whatever the source patch and source line.       *)
C8_MajorUpgradeNotToZero ==
    (IsPlainCall /\ Major(to) = Major(from) + 1 /\ Minor(to) # 0)
    => err = Errorf(MajorUpgradeNotToZero, <<>>)

(* 3.12.0 -> 4.1.x: the X.0 check has decided before the patch check *)
C8_Witness ==
    /\ IsPlainCall
    /\ Major(to) = Major(from) + 1 /\ Minor(to) = 1
    /\ HasMinPatchRule /\ HasPatchSegment(from) /\ getPatch(from) = 0
    /\ err.format = MajorUpgradeNotToZero

(* C9: a major upgrade to X.0 from a source line without a minimum-patch   *)
(* entry is denied by both checkers with MajorUpgradeNotAllowedFromLine,   *)
(* whatever the source patch; an allowed major upgrade comes from a line   *)
(* of the table.                                                           *)
C9_MajorUpgradeOnlyFromListedLine ==
    IsPlainCall
    => /\ (MajorUpgradeToZero /\ ~HasMinPatchRule)
              => err = Errorf(MajorUpgradeNotAllowedFromLine,
                              <<Major(from), Minor(from), Major(to)>>)
       /\ (Major(to) # Major(from) /\ err = nil) => HasMinPatchRule

(* 3.11.x -> 4.0.x with a patch above the minimum has been denied *)
C9_Witness ==
    /\ IsPlainCall
    /\ MajorUpgradeToZero /\ ~HasMinPatchRule
    /\ Major(from) = 3 /\ Minor(from) = 11 /\ getPatch(from) >= 7
    /\ err.format = MajorUpgradeNotAllowedFromLine

(* C10: with major and minor unchanged both checkers allow, whether the    *)
(* patch goes up, down, stays or is not a number.                          *)
C10_PatchChangeAllowed ==
    (IsPlainCall /\ Major(to) = Major(from) /\ Minor(to) = Minor(from))
    => err = nil

(* a patch going down to a non-numeric one has been allowed *)
C10_Witness ==
    /\ op = "CheckUpgradeRules"
    /\ Major(to) = Major(from) /\ Minor(to) = Minor(from)
    /\ getPatch(from) > 0
    /\ HasPatchSegment(to) /\ ~PatchStartsWithDigits(to)
    /\ err = nil

(* C11: the older soft checker allows every same-major minor increase, by  *)
(* one or by more, and so does the older soft license checker on the       *)
(* license pairs other than Enterprise -> Community.                       *)
C11_OldSoftAllowsForwardMinor ==
    (Major(to) = Major(from) /\ Minor(to) > Minor(from))
    => /\ op = "old.CheckSoftUpgradeRules" => err = nil
       /\ (op = "old.CheckSoftUpgradeRulesWithLicense"
              /\ ~(fromLicense = LicenseEnterprise
                      /\ toLicense = LicenseCommunity))
              => err = nil

----------------------------------------------------------------------------
(* The patch as the text of a version gives it: the digits from behind the *)
(* second dot up to the first character that is no digit                   *)

DotsBefore(s, i) == Cardinality({j \in 1..(i - 1) : s[j] = "."})

SecondDot(s) == CHOOSE i \in 1..Len(s) : s[i] = "." /\ DotsBefore(s, i) = 1

PatchRunLength(s) ==
    LET d == SecondDot(s)
    IN Cardinality({k \in 1..(Len(s) - d) :
                       \A j \in 1..k : IsDigit(s[d + j])})

RECURSIVE Pow10(_)
Pow10(n) == IF n = 0 THEN 1 ELSE 10 * Pow10(n - 1)

RECURSIVE SumDigits(_, _, _)
SumDigits(s, first, n) ==
    IF n = 0 THEN 0
    ELSE DigitVal(s[first]) * Pow10(n - 1) + SumDigits(s, first + 1, n - 1)

ExpectedPatch(s) ==
    IF DotsBefore(s, Len(s) + 1) < 2 THEN 0
    ELSE LET d == SecondDot(s)
             n == PatchRunLength(s)
         IN IF n = 0 THEN 0
            ELSE IF ~FitsInt(StripZeros(SubSeq(s, d + 1, d + n))) THEN 0
            ELSE SumDigits(s, d + 1, n)

(* C12: getPatch returns, for every version string, the value of the       *)
(* leading run of decimal digits of the third dot-separated component, and *)
(* 0 when there are fewer than three components, when the third does not   *)
(* start with a digit, or when the run does not fit in an int.             *)
C12_GetPatchIsLeadingDigitRun ==
    op = "getPatch"
    => /\ patch \in Nat
       /\ patch = ExpectedPatch(from)

(* getPatch has read 7 from a patch component with a suffix *)
C12_Witness ==
    /\ op = "getPatch"
    /\ DotsBefore(from, Len(from) + 1) = 2
    /\ PatchRunLength(from) = 1
    /\ Len(from) > SecondDot(from) + 1
    /\ patch = 7
====
